---- MODULE Spec2Model ----
(***************************************************************************)
(* A model of the P3388 RFI test-vector generator: the Gilbert-Elliott     *)
(* state machine (gereactor.py), the interferer model (rfireactor.py), the *)
(* spectrogram and time-signal stages (rfigenerator.py) and the IFFT time  *)
(* chunk (iffttimechunk.py).                                               *)
(***************************************************************************)
EXTENDS Integers, Sequences, FiniteSets, TLC

(***************************************************************************)
(* Python floats.  The times of make_spectrogram (t, WindowSize_s,         *)
(* Duration_s) and the repetition factor of rep() are IEEE-754 binary64    *)
(* values.  A non-negative double is held as the natural number of         *)
(* 2^-FracBits units it is worth, written in base 2^15, lowest limb first, *)
(* without leading zero limbs; every operation computes the exact result   *)
(* and rounds it to 53 significant bits, ties to even, as the hardware     *)
(* does.  All values of the model lie in [2^-6, 2^8), where this is what   *)
(* binary64 arithmetic computes.                                           *)
(***************************************************************************)
LimbBits == 3 * 5

LimbBase == 2 ^ LimbBits

FracLimbs == 2 + 2

FracBits == FracLimbs * LimbBits

MantBits == 52 + 1

RECURSIVE BFromNat(_)
BFromNat(n) ==
    IF n = 0 THEN << >> ELSE <<n % LimbBase>> \o BFromNat(n \div LimbBase)

RECURSIVE BToNat(_)
BToNat(a) == IF a = << >> THEN 0 ELSE Head(a) + LimbBase * BToNat(Tail(a))

RECURSIVE BTrim(_)
BTrim(a) ==
    IF a = << >> THEN a
    ELSE IF a[Len(a)] = 0 THEN BTrim(SubSeq(a, 1, Len(a) - 1)) ELSE a

BLimb(a, j) == IF j >= 1 /\ j <= Len(a) THEN a[j] ELSE 0

\* bit i of a, the lowest bit being bit 1
BBit(a, i) ==
    (BLimb(a, (i - 1) \div LimbBits + 1) \div (2 ^ ((i - 1) % LimbBits))) % 2

BBitLen(a) ==
    IF a = << >> THEN 0
    ELSE LimbBits * (Len(a) - 1)
         + (CHOOSE k \in 1..LimbBits :
                2 ^ (k - 1) <= a[Len(a)] /\ a[Len(a)] < 2 ^ k)

RECURSIVE BAddC(_, _, _)
BAddC(a, b, c) ==
    IF a = << >> /\ b = << >>
    THEN IF c = 0 THEN << >> ELSE <<c>>
    ELSE LET s == BLimb(a, 1) + BLimb(b, 1) + c
             ta == IF a = << >> THEN a ELSE Tail(a)
             tb == IF b = << >> THEN b ELSE Tail(b)
         IN  <<s % LimbBase>> \o BAddC(ta, tb, s \div LimbBase)

BAdd(a, b) == BAddC(a, b, 0)

\* a - b for a >= b
RECURSIVE BSubC(_, _, _)
BSubC(a, b, c) ==
    IF a = << >> THEN << >>
    ELSE LET d == BLimb(a, 1) - BLimb(b, 1) - c
             tb == IF b = << >> THEN b ELSE Tail(b)
         IN  <<d % LimbBase>> \o BSubC(Tail(a), tb, IF d < 0 THEN 1 ELSE 0)

BSub(a, b) == BTrim(BSubC(a, b, 0))

RECURSIVE BLessFrom(_, _, _)
BLessFrom(a, b, j) ==
    IF j = 0 THEN FALSE
    ELSE IF a[j] # b[j] THEN a[j] < b[j] ELSE BLessFrom(a, b, j - 1)

BLess(a, b) ==
    IF Len(a) # Len(b) THEN Len(a) < Len(b) ELSE BLessFrom(a, b, Len(a))

\* a * 2^(LimbBits * k)
BShlLimbs(a, k) == IF a = << >> THEN a ELSE [j \in 1..k |-> 0] \o a

RECURSIVE BMulC(_, _, _)
BMulC(a, n, c) ==
    IF a = << >> THEN BFromNat(c)
    ELSE LET p == Head(a) * n + c
         IN  <<p % LimbBase>> \o BMulC(Tail(a), n, p \div LimbBase)

\* a * n for a natural n < 2^15
BMulNat(a, n) == BTrim(BMulC(a, n, 0))

\* long division of a by the natural d < 2^15, from the highest limb down
RECURSIVE BDivFrom(_, _, _, _)
BDivFrom(a, d, j, r) ==
    IF j = 0 THEN [q |-> << >>, r |-> r]
    ELSE LET r1 == r * LimbBase + a[j]
             rest == BDivFrom(a, d, j - 1, r1 % d)
         IN  [q |-> Append(rest.q, r1 \div d), r |-> rest.r]

BDivNat(a, d) ==
    LET res == BDivFrom(a, d, Len(a), 0) IN [q |-> BTrim(res.q), r |-> res.r]

\* 2^k
BPow2(k) ==
    [j \in 1..(k \div LimbBits + 1) |->
        IF j = k \div LimbBits + 1 THEN 2 ^ (k % LimbBits) ELSE 0]

\* a with its k lowest bits cleared
BClearLow(a, k) ==
    [j \in 1..Len(a) |->
        IF j * LimbBits <= k THEN 0
        ELSE IF (j - 1) * LimbBits >= k THEN a[j]
        ELSE a[j] - (a[j] % (2 ^ (k - (j - 1) * LimbBits)))]

\* round the exact value a (plus a non-zero remainder below its lowest bit
\* when sticky) to MantBits significant bits, ties to even
Round53(a, sticky) ==
    IF BBitLen(a) <= MantBits THEN a
    ELSE LET k == BBitLen(a) - MantBits
             below == sticky \/ \E i \in 1..(k - 1) : BBit(a, i) = 1
             up == BBit(a, k) = 1 /\ (below \/ BBit(a, k + 1) = 1)
         IN  IF up THEN BAdd(BClearLow(a, k), BPow2(k)) ELSE BClearLow(a, k)

\* float(n/den) for a decimal literal n/den of the configuration file
FParse(n, den) ==
    LET d == BDivNat(BShlLimbs(BFromNat(n), FracLimbs), den)
    IN  Round53(d.q, d.r # 0)

FAdd(x, y) == Round53(BAdd(x, y), FALSE)

FLess(x, y) == BLess(x, y)

FMulNat(x, n) == Round53(BMulNat(x, n), FALSE)

\* int(np.floor(x))
FFloor(x) == BToNat(SubSeq(x, FracLimbs + 1, Len(x)))

\* x - m for a natural m <= x with x - m < 1 a double: exact in binary64
FSubNat(x, m) == BSub(x, BShlLimbs(BFromNat(m), FracLimbs))

\* Python's round(x): the nearest integer, ties to the even one
PyRound(x) ==
    LET ip == FFloor(x)
        rest == \E i \in 1..(FracBits - 1) : BBit(x, i) = 1
        up == BBit(x, FracBits) = 1 /\ (rest \/ ip % 2 = 1)
    IN  IF up THEN ip + 1 ELSE ip

(***************************************************************************)
(* Bounds of the model.                                                    *)
(***************************************************************************)
\* NFreqBins ranges over 1..MaxBins
MaxBins == 3

\* probabilities and uniform draws are multiples of 1/ProbDen
ProbDen == 2

Probs == 0..ProbDen

\* the repetition factors given to rep() are 0, 0.1, ..., MaxRepTenths/10
MaxRepTenths == 35

\* a state machine on its own is stepped at most MaxSteps times
MaxSteps == 4

\* the values np.random.rand() draws, in [0, 1)
RandDraws == 0..(ProbDen - 1)

\* the values np.random.randn() draws
RandnDraws == {-1, 0, 1}

Abs(z) == IF z < 0 THEN -z ELSE z

Max2(a, b) == IF a >= b THEN a ELSE b

Min2(a, b) == IF a <= b THEN a ELSE b

(***************************************************************************)
(* Magnitudes.  A linear amplitude is held as a whole number of 1/AmpOne;  *)
(* powers in dB are multiples of 20, so that 10^(dB/20) is a power of ten, *)
(* and the shaping std is the one whose Gaussian envelope                  *)
(* exp(-0.5*((x - c)/std)^2) is 2^-((x - c)^2), so that every magnitude of *)
(* the model is exact.  A dB value 20*log10(v) that is written to the      *)
(* spectrogram is held as the term [dB20log10 |-> v].                      *)
(***************************************************************************)
AmpOne == 10 * 2 ^ ((MaxBins - 1) * (MaxBins - 1))

\* 10 ** (dB / 20)
DbToAmp(dB) ==
    IF dB >= 0 THEN AmpOne * 10 ^ (dB \div 20)
    ELSE AmpOne \div 10 ^ ((-dB) \div 20)

\* 20 * np.log10(v)
AmpToDb(v) == [dB20log10 |-> v]

(***************************************************************************)
(* gereactor.py                                                            *)
(***************************************************************************)
\* GEReactor.step reading the off-diagonal entries of probs
GEStepOffDiagonal(s, probs, r) ==
    IF s = 0
    THEN IF r > probs[1][2] THEN 1 ELSE 0
    ELSE IF r > probs[2][1] THEN 0 ELSE 1

\* GEReactor.step that never leaves ON
GEStepStickyOn(s, probs, r) ==
    IF s = 0
    THEN IF r > probs[1][1] THEN 1 ELSE 0
    ELSE 1

\* GEReactor.step on state s with the uniform draw r; probs is 2x2
GEStep(s, probs, r) ==
    IF s = 0
    THEN IF r > probs[1][1] THEN 1 ELSE 0
    ELSE IF r > probs[2][2] THEN 0 ELSE 1

(***************************************************************************)
(* rfireactor.py.  Vectors over the bins are functions on 0..nbins-1, as   *)
(* numpy indexes them.                                                     *)
(***************************************************************************)
Bins(nbins) == 0..(nbins - 1)

Zeros(nbins) == [b \in Bins(nbins) |-> 0]

\* np.array(ge_probs).reshape(2, 2).T
GeMatrix(g) == <<<<g[1], g[3]>>, <<g[2], g[4]>>>>

\* the width L drawn for a "normal" bandwidth, n being np.abs(randn())
BwWidth(bw, n) ==
    IF bw.mean <= 1 /\ bw.std = 0 THEN 1
    ELSE 2 * ((bw.mean + bw.std * n + 1) \div 2) + 1

\* calculate_bin_range: np.arange(int(Ilow), int(Ihigh) + 1)
calculate_bin_range(nbins, startbin, endbin) ==
    Max2(startbin, 1)..Min2(endbin, nbins)

\* the index set I of step() with the "flat" span taken through
\* calculate_bin_range
OccupiedBinsFlatClipped(nbins, props, n) ==
    IF props.bw_distr.type = "normal"
    THEN LET L == BwWidth(props.bw_distr, n)
             offset == (L - 1) \div 2
         IN  calculate_bin_range(nbins, props.centerbin - offset,
                                 props.centerbin + offset)
    ELSE calculate_bin_range(nbins, 0, nbins - 1)

\* the index set I of step(), for an ON reactor
OccupiedBins(nbins, props, n) ==
    IF props.bw_distr.type = "normal"
    THEN LET L == BwWidth(props.bw_distr, n)
             offset == (L - 1) \div 2
         IN  calculate_bin_range(nbins, props.centerbin - offset,
                                 props.centerbin + offset)
    ELSE Bins(nbins)

\* ps_pdf[b], in units of 2^-((nbins-1)^2)
SqDist(props, b) == (b - props.centerbin) * (b - props.centerbin)

\* the vector r of step(), as a function on I: a, shaped when enabled
Envelope(props, I, a) ==
    IF props.pwr_shaping.enabled
    THEN LET dmin == CHOOSE d \in {SqDist(props, b) : b \in I} :
                         \A b \in I : d <= SqDist(props, b)
         IN  [b \in I |-> a \div 2 ^ (SqDist(props, b) - dmin)]
    ELSE [b \in I |-> a]

\* RFIReactor.step: [state, J, err] after the call on a reactor in state s
\* with contribution vector J0; r, n, z are the draws of rand(),
\* abs(randn()) and randn()
ReactorStep(nbins, props, s, J0, r, n, z) ==
    LET s1 == GEStep(s, GeMatrix(props.ge_probs), r)
        I == OccupiedBins(nbins, props, n)
        p == props.pwr_distr.mean + props.pwr_distr.std * z
    IN  IF s1 # 1 THEN [state |-> s1, J |-> J0, I |-> {}, err |-> "none"]
        ELSE IF props.bw_distr.type \notin {"normal", "flat"}
        THEN [state |-> s1, J |-> J0, I |-> {}, err |-> "ValueError"]
        ELSE IF props.pwr_distr.type # "normal"
        THEN [state |-> s1, J |-> J0, I |-> I, err |-> "ValueError"]
        ELSE IF props.pwr_shaping.enabled /\ \E b \in I : b \notin Bins(nbins)
        THEN [state |-> s1, J |-> J0, I |-> I, err |-> "IndexError"]
        ELSE IF props.pwr_shaping.enabled /\ I = {}
        THEN [state |-> s1, J |-> J0, I |-> I, err |-> "ValueError"]
        ELSE IF \E b \in I : b \notin Bins(nbins)
        THEN [state |-> s1, J |-> J0, I |-> I, err |-> "IndexError"]
        ELSE LET env == Envelope(props, I, DbToAmp(p))
             IN  [state |-> s1,
                  J |-> [b \in Bins(nbins) |-> IF b \in I THEN env[b] ELSE J0[b]],
                  I |-> I, err |-> "none"]

\* reset_j
reset_j(nbins) == Zeros(nbins)

\* add() without its reset_j() call
ReactorAddNoReset(nbins, props, s, J0, x, r, n, z) ==
    LET st == ReactorStep(nbins, props, s, J0, r, n, z)
    IN  IF st.err # "none"
        THEN [state |-> st.state, J |-> st.J, x |-> x, folded |-> Zeros(nbins),
              I |-> st.I, err |-> st.err]
        ELSE [state |-> st.state, J |-> st.J,
              x |-> [b \in Bins(nbins) |-> x[b] + st.J[b]],
              folded |-> st.J, I |-> st.I, err |-> "none"]

\* RFIReactor.add(x): [state, J, x, folded, I, err]; x is the returned vector
\* and folded the vector added to the argument
ReactorAdd(nbins, props, s, J0, x, r, n, z) ==
    LET st == ReactorStep(nbins, props, s, J0, r, n, z)
    IN  IF st.err # "none"
        THEN [state |-> st.state, J |-> st.J, x |-> x, folded |-> Zeros(nbins),
              I |-> st.I, err |-> st.err]
        ELSE [state |-> st.state, J |-> reset_j(nbins),
              x |-> [b \in Bins(nbins) |-> x[b] + st.J[b]],
              folded |-> st.J, I |-> st.I, err |-> "none"]

\* J = reactor.add(J) for the two reactors o[1] and then o[2] of the list
\* props, whose states are st and whose contribution vectors are Js; d[i]
\* holds the draws of reactor i.  An exception of the first add() leaves the
\* second reactor uncalled.  mid is the state after the first add().
AddInOrder(nbins, props, o, st, Js, x, d) ==
    LET first == ReactorAdd(nbins, props[o[1]], st[o[1]], Js[o[1]], x,
                            d[o[1]].r, d[o[1]].n, d[o[1]].z)
        midS == [st EXCEPT ![o[1]] = first.state]
        midJ == [Js EXCEPT ![o[1]] = first.J]
        second == ReactorAdd(nbins, props[o[2]], midS[o[2]], midJ[o[2]], first.x,
                             d[o[2]].r, d[o[2]].n, d[o[2]].z)
    IN  IF first.err # "none"
        THEN [state |-> midS, J |-> midJ, x |-> << >>, err |-> first.err,
              mid |-> [state |-> midS, J |-> midJ]]
        ELSE [state |-> [midS EXCEPT ![o[2]] = second.state],
              J |-> [midJ EXCEPT ![o[2]] = second.J],
              x |-> IF second.err = "none" THEN second.x ELSE << >>,
              err |-> second.err,
              mid |-> [state |-> midS, J |-> midJ]]

(***************************************************************************)
(* iffttimechunk.py.  The attributes fs, dF and dT are exact fractions     *)
(* <<numerator, denominator>>; times of the configuration are whole        *)
(* numbers of tenths of a second.  A sample of a transform that the model  *)
(* does not evaluate (the inverse FFT, an interpolation, the polyphase     *)
(* resampler) is held as the term that names its inputs.                   *)
(***************************************************************************)
RECURSIVE Gcd(_, _)
Gcd(a, b) == IF b = 0 THEN a ELSE Gcd(b, a % b)

Frac(n, d) == <<n \div Gcd(n, d), d \div Gcd(n, d)>>

FracDiv(x, y) == Frac(x[1] * y[2], x[2] * y[1])

\* IFFTTimeChunk.__init__: the new object, or the exception it raises
ChunkInit(c) ==
    LET tau == IF c.ifft.DurationPerChunk_s < 0
               THEN c.spectrogram.WindowSize_s ELSE c.ifft.DurationPerChunk_s
        N == c.spectrogram.NFreqBins
        fs0 == c.ifft.StartingSampleRate_Hz
        fs == IF fs0 # 0 THEN Frac(10 * N, tau) ELSE Frac(0, 1)
        dF == FracDiv(fs, <<N, 1>>)
        dT == FracDiv(<<1, 1>>, dF)
        M == FracDiv(<<tau, 10>>, dT)
    IN  IF fs0 # 0 /\ tau = 0 THEN [exists |-> FALSE, err |-> "ZeroDivisionError"]
        ELSE IF dF[1] = 0 THEN [exists |-> FALSE, err |-> "ZeroDivisionError"]
        ELSE [exists |-> TRUE, err |-> "none", tau |-> tau, N |-> N, fs |-> fs,
              dF |-> dF, dT |-> dT, M |-> FParse(M[1], M[2]),
              U |-> c.ifft.UpsampleRate, X |-> << >>]

\* np.tile(X, m)
RECURSIVE Tile(_, _)
Tile(X, m) == IF m = 0 THEN << >> ELSE X \o Tile(X, m - 1)

\* np.interp(np.linspace(1, N, K), np.linspace(1, N, N), X): sample j of K
InterpSample(X, N, K, j) ==
    IF K = 1 THEN X[1]
    ELSE LET num == (j - 1) * (N - 1)
             lo == num \div (K - 1)
             rem == num % (K - 1)
         IN  IF rem = 0 THEN X[lo + 1]
             ELSE [interp |-> <<X[lo + 1], X[lo + 2]>>, w |-> Frac(rem, K - 1)]

\* np.fft.fftshift(X)
FftShift(X) ==
    [k \in 1..Len(X) |-> X[((k - 1 - Len(X) \div 2) % Len(X)) + 1]]

\* rep() with the expansion method "repeat"
RepRepeatFloorOnly(X, N, M) ==
    LET m == FFloor(M)
    IN  IF m < 1 THEN [X |-> X, err |-> "ValueError"]
        ELSE [X |-> Tile(X, m), err |-> "none"]

RepRepeat(X, N, M) ==
    LET m == FFloor(M)
        fp == FSubNat(M, m)
        tiled == Tile(X, m)
        cnt == PyRound(FMulNat(fp, N))
    IN  IF m < 1 THEN [X |-> X, err |-> "ValueError"]
        ELSE IF cnt > Len(tiled) THEN [X |-> tiled, err |-> "IndexError"]
        ELSE [X |-> tiled \o SubSeq(tiled, 1, cnt), err |-> "none"]

\* IFFTTimeChunk.rep: [X, err]
Rep(X, N, M, method) ==
    IF method = "repeat" THEN RepRepeat(X, N, M)
    ELSE IF method = "interpolation"
    THEN LET K == PyRound(FMulNat(M, N))
         IN  IF Len(X) # N THEN [X |-> X, err |-> "ValueError"]
             ELSE [X |-> [j \in 1..K |-> InterpSample(X, N, K, j)], err |-> "none"]
    ELSE IF method = "upsample" THEN [X |-> FftShift(X), err |-> "none"]
    ELSE [X |-> X, err |-> "ValueError"]

\* 10 ** (YdB / 20) of a value read back from the spectrogram
DbTermToAmp(v) == v.dB20log10

\* np.fft.ifftshift in the place of the reorder of ifft()
ReorderIfftShift(Y0) ==
    LET h == Len(Y0) \div 2
    IN  SubSeq(Y0, h + 1, Len(Y0)) \o SubSeq(Y0, 1, h)

\* the reorder of ifft(): Im = ceil(len/2); [Y0[Im-1]] + Y0[Im:] + Y0[:Im-1]
Reorder(Y0) ==
    LET Im == (Len(Y0) + 1) \div 2
    IN  <<Y0[Im]>> \o SubSeq(Y0, Im + 1, Len(Y0)) \o SubSeq(Y0, 1, Im - 1)

\* IFFTTimeChunk.ifft: X for the row YdB; poff and ri[k] are the draws of
\* rand() used when the phase is enabled
Ifft(c, N, M, YdB, poff, ri) ==
    LET Y0 == [k \in 1..Len(YdB) |-> DbTermToAmp(YdB[k])]
        K == PyRound(FMulNat(M, N))
        Yi == IF c.ifft.Expansion.ExpansionMethod = "upsample"
              THEN [j \in 1..K |-> [makima |-> Y0, j |-> j - 1, K |-> K]]
              ELSE Y0
        Y1 == Reorder(Yi)
        Y2 == IF c.ifft.Phase.Enabled
              THEN [k \in 1..Len(Y1) |->
                      [mag |-> Y1[k],
                       poff |-> IF c.ifft.Phase.ApplyRandomPhaseOffset
                                THEN poff ELSE 0,
                       ri |-> ri[k]]]
              ELSE Y1
    IN  [n \in 1..Len(Y2) |-> [ifft |-> Y2, n |-> n - 1]]

\* signal.resample_poly(X, U, 1)
ResamplePoly(X, U) ==
    IF U = 1 THEN X
    ELSE [j \in 1..(Len(X) * U) |-> [resample_poly |-> X, up |-> U, j |-> j - 1]]

\* IFFTTimeChunk.__add__: [X, err]
ChunkAdd(c, ch, YdB, poff, ri) ==
    LET X0 == Ifft(c, ch.N, ch.M, YdB, poff, ri)
        r == Rep(X0, ch.N, ch.M, c.ifft.Expansion.ExpansionMethod)
    IN  IF r.err # "none" THEN r
        ELSE [X |-> ResamplePoly(r.X, ch.U), err |-> "none"]

(***************************************************************************)
(* The state.                                                              *)
(***************************************************************************)
VARIABLES
    cfg,        \* rfi_props.config, the parsed configuration file
    rstate,     \* rstate[i]: the GEReactor.state of reactor i
    rJ,         \* rJ[i]: the contribution vector J of reactor i
    pc,         \* where the running method stands
    loc,        \* the locals of the running method
    specFile,   \* the spectrogram artifact: whether it exists, and its rows
    tsFile,     \* the time-signal artifact: whether it exists, and its rows
    chunk,      \* the IFFTTimeChunk object in use, or NoChunk
    last        \* the last call that returned or raised, and its outcome

vars == <<cfg, rstate, rJ, pc, loc, specFile, tsFile, chunk, last>>

NoFile == [exists |-> FALSE, rows |-> << >>]

File(rows) == [exists |-> TRUE, rows |-> rows]

NoChunk == [exists |-> FALSE]

NoLocals == [method |-> "none"]

NoCall == [op |-> "none"]

NReactors == Len(cfg.Reactors)

NFreqBins == cfg.spectrogram.NFreqBins

(***************************************************************************)
(* Configurations.                                                         *)
(***************************************************************************)
\* ge_probs as jspec_csvtojson writes it: ge_prob_11, _12, _21, _22 of a
\* chain that stays OFF with probability a and ON with probability d
GeProbLists == {<<a, ProbDen - a, ProbDen - d, d>> : a \in Probs, d \in Probs}

BwDistrs ==
    [type : {"normal"}, mean : {1, 3}, std : {0, 1}]
    \cup [type : {"flat", "uniform"}, mean : {1}, std : {0}]

PwrDistrs ==
    [type : {"normal"}, mean : {0}, std : {0, 20}]
    \cup [type : {"lognormal"}, mean : {0}, std : {0}]

PwrShapings == [enabled : BOOLEAN]

ReactorProps(nbins) ==
    [centerbin : Bins(nbins), ge_probs : GeProbLists, bw_distr : BwDistrs,
     pwr_distr : PwrDistrs, pwr_shaping : PwrShapings]

NoiseFloors == {-20, 0}

\* the spectrogram section of a configuration that is not used by a run
IdleSpectrogram(nbins) ==
    [NFreqBins |-> nbins, WindowSize_s |-> 1, Duration_s |-> 0,
     NoiseFloorPower_dB |-> 0]

IdleIfft ==
    [DurationPerChunk_s |-> -1, StartingSampleRate_Hz |-> 0, UpsampleRate |-> 1,
     Phase |-> [Enabled |-> FALSE, ApplyRandomPhaseOffset |-> FALSE,
                PhaseNoise_rads |-> 0],
     Expansion |-> [ExpansionMethod |-> "repeat",
                    UpsampleInterpolationMethod |-> "makima"]]

(***************************************************************************)
(* Reactors on their own: RFIReactor(nbins, props) and any sequence of     *)
(* add() calls on it.                                                      *)
(***************************************************************************)
\* RFIReactor.__init__ for every reactor of the configuration
InitReactorObjects ==
    /\ rstate = [i \in 1..NReactors |-> 0]
    /\ rJ = [i \in 1..NReactors |-> Zeros(NFreqBins)]

InitReactor ==
    /\ \E nbins \in 1..MaxBins : \E props \in ReactorProps(nbins) :
          cfg = [spectrogram |-> IdleSpectrogram(nbins), ifft |-> IdleIfft,
                 Reactors |-> <<props>>]
    /\ InitReactorObjects
    /\ pc = "idle"
    /\ loc = NoLocals
    /\ specFile = NoFile
    /\ tsFile = NoFile
    /\ chunk = NoChunk
    /\ last = NoCall

\* reactor i's add(x) with the draws r, n, z
AddCall(i, x, r, n, z) ==
    LET res == ReactorAdd(NFreqBins, cfg.Reactors[i], rstate[i], rJ[i], x, r, n, z)
    IN  /\ rstate' = [rstate EXCEPT ![i] = res.state]
        /\ rJ' = [rJ EXCEPT ![i] = res.J]
        /\ last' = [op |-> "add", i |-> i, x0 |-> x, from |-> rstate[i],
                    n |-> n, z |-> z, res |-> res]

ReactorAddAction ==
    /\ pc = "idle"
    /\ \E i \in 1..NReactors, NF \in NoiseFloors, r \in RandDraws,
          n \in {Abs(d) : d \in RandnDraws}, z \in RandnDraws :
          AddCall(i, [b \in Bins(NFreqBins) |-> DbToAmp(NF)], r, n, z)
    /\ UNCHANGED <<cfg, pc, loc, specFile, tsFile, chunk>>

NextReactor == ReactorAddAction

SpecReactor == InitReactor /\ [][NextReactor]_vars

(***************************************************************************)
(* Two reactors, each ON or OFF as a run can leave it between two windows, *)
(* and one pass of the loop over them, J = reactor.add(J), in either order *)
(* of the list.                                                            *)
(***************************************************************************)
\* the reactors of a pair: each toggles on every draw above zero and draws
\* its power among -20, 0 and 20 dB
PairProps(nbins) ==
    [centerbin : Bins(nbins), ge_probs : {<<0, ProbDen, ProbDen, 0>>},
     bw_distr : {[type |-> "normal", mean |-> 1, std |-> 0],
                 [type |-> "normal", mean |-> 3, std |-> 0],
                 [type |-> "flat", mean |-> 1, std |-> 0]},
     pwr_distr : {[type |-> "normal", mean |-> 0, std |-> 20]},
     pwr_shaping : {[enabled |-> FALSE]}]

InitPair ==
    /\ \E nbins \in 1..MaxBins :
          \E p1 \in PairProps(nbins), p2 \in PairProps(nbins) :
             cfg = [spectrogram |-> IdleSpectrogram(nbins), ifft |-> IdleIfft,
                    Reactors |-> <<p1, p2>>]
    /\ rstate \in {<<a, b>> : a \in {0, 1}, b \in {0, 1}}
    /\ rJ = [i \in 1..NReactors |-> Zeros(NFreqBins)]
    /\ pc = "idle"
    /\ loc = NoLocals
    /\ specFile = NoFile
    /\ tsFile = NoFile
    /\ chunk = NoChunk
    /\ last = NoCall

\* the draws of one add(): the bandwidth std is zero, so that abs(randn())
\* has no effect
PairDraws == [r : RandDraws, n : {0}, z : RandnDraws]

\* for reactor in (o[1], o[2]): J = reactor.add(J), on the noise floor of 0 dB
PairAddAction ==
    /\ pc = "idle"
    /\ last = NoCall
    /\ \E o \in {<<1, 2>>, <<2, 1>>}, d \in [1..2 -> PairDraws] :
          LET x == [b \in Bins(NFreqBins) |-> DbToAmp(0)]
              res == AddInOrder(NFreqBins, cfg.Reactors, o, rstate, rJ, x, d)
          IN  /\ rstate' = res.state
              /\ rJ' = res.J
              /\ last' = [op |-> "add_pair", order |-> o, x0 |-> x, d |-> d,
                          pre |-> [state |-> rstate, J |-> rJ], res |-> res]
    /\ UNCHANGED <<cfg, pc, loc, specFile, tsFile, chunk>>

NextPair == PairAddAction

SpecPair == InitPair /\ [][NextPair]_vars

(***************************************************************************)
(* The state machine on its own: RFIReactor(nbins, props), which builds    *)
(* the GEReactor from ge_probs, and any sequence of GEReactor.step() calls *)
(* on it.  last.probs is self.probs and last.draws the draws of rand() so  *)
(* far.                                                                    *)
(***************************************************************************)
\* every flat list ge_probs of four probabilities
GeLists == {<<a, b, c, d>> : a \in Probs, b \in Probs, c \in Probs, d \in Probs}

InitGE ==
    /\ \E g \in GeLists :
          cfg = [spectrogram |-> IdleSpectrogram(1), ifft |-> IdleIfft,
                 Reactors |-> <<[centerbin |-> 0, ge_probs |-> g,
                                 bw_distr |-> [type |-> "flat", mean |-> 1, std |-> 0],
                                 pwr_distr |-> [type |-> "normal", mean |-> 0, std |-> 0],
                                 pwr_shaping |-> [enabled |-> FALSE]]>>]
    /\ rstate = << >>
    /\ rJ = << >>
    /\ pc = "idle"
    /\ loc = NoLocals
    /\ specFile = NoFile
    /\ tsFile = NoFile
    /\ chunk = NoChunk
    /\ last = NoCall

\* RFIReactor.__init__: super().__init__(ge_probs) sets state and probs
GEConstruct ==
    /\ last = NoCall
    /\ rstate' = [i \in 1..NReactors |-> 0]
    /\ rJ' = [i \in 1..NReactors |-> Zeros(NFreqBins)]
    /\ last' = [op |-> "GEReactor", probs |-> GeMatrix(cfg.Reactors[1].ge_probs),
                draws |-> << >>, from |-> 0]
    /\ UNCHANGED <<cfg, pc, loc, specFile, tsFile, chunk>>

\* GEReactor.step with the draw r
GEStepAction ==
    /\ last.op \in {"GEReactor", "step"}
    /\ Len(last.draws) < MaxSteps
    /\ \E r \in RandDraws :
          /\ rstate' = [rstate EXCEPT ![1] = GEStep(rstate[1], last.probs, r)]
          /\ last' = [op |-> "step", probs |-> last.probs,
                      draws |-> Append(last.draws, r), from |-> rstate[1]]
    /\ UNCHANGED <<cfg, rJ, pc, loc, specFile, tsFile, chunk>>

NextGE == GEConstruct \/ GEStepAction

SpecGE == InitGE /\ [][NextGE]_vars

(***************************************************************************)
(* rfigenerator.py: make_spectrogram and make_time_signal, run as          *)
(* generate_p3388_rfi.py runs them: the spectrogram stage and then the     *)
(* time-signal stage, or the time-signal stage alone on the spectrogram    *)
(* artifact that is there.  An exception ends the run.                     *)
(***************************************************************************)
\* the row 20*log10(J) that to_csv writes for the frame J
FrameRow(J) == [k \in 1..NFreqBins |-> AmpToDb(J[k - 1])]

\* to_csv(path, mode): 'w' replaces the file, 'a' appends to it
ToCsv(file, first_write, rows) ==
    File(IF first_write THEN rows ELSE file.rows \o rows)

\* make_spectrogram without the check of the bin count
SpecBeginUnchecked ==
    /\ pc = "idle"
    /\ pc' = "spec_loop"
    /\ loc' = [method |-> "make_spectrogram", t |-> FParse(0, 1),
               first_write |-> TRUE, written |-> << >>, steps |-> 0,
               order |-> << >>]
    /\ UNCHANGED <<cfg, rstate, rJ, specFile, tsFile, chunk, last>>

\* lines 41-52: the locals, and the check of the bin count
SpecBegin ==
    /\ pc = "idle"
    /\ IF NFreqBins % 2 = 0
       THEN /\ pc' = "spec_raised"
            /\ loc' = NoLocals
            /\ last' = [op |-> "make_spectrogram", err |-> "ValueError",
                        written |-> << >>, steps |-> 0, order |-> << >>]
       ELSE /\ pc' = "spec_loop"
            /\ loc' = [method |-> "make_spectrogram", t |-> FParse(0, 1),
                       first_write |-> TRUE, written |-> << >>, steps |-> 0,
               order |-> << >>]
            /\ last' = last
    /\ UNCHANGED <<cfg, rstate, rJ, specFile, tsFile, chunk>>

\* line 53-54: while t < dur: J = nfv * np.ones(L)
SpecLoopTest ==
    /\ pc = "spec_loop"
    /\ IF FLess(loc.t, FParse(cfg.spectrogram.Duration_s, 10))
       THEN /\ loc' = [method |-> "make_spectrogram", t |-> loc.t,
                       first_write |-> loc.first_write, written |-> loc.written,
                       steps |-> loc.steps, order |-> loc.order,
                       J |-> [b \in Bins(NFreqBins) |->
                                 DbToAmp(cfg.spectrogram.NoiseFloorPower_dB)],
                       ri |-> 1]
            /\ pc' = IF NReactors = 0 THEN "spec_write" ELSE "spec_add"
            /\ last' = last
       ELSE /\ loc' = NoLocals
            /\ pc' = "spec_done"
            /\ last' = [op |-> "make_spectrogram", err |-> "none",
                        written |-> loc.written, steps |-> loc.steps,
                        order |-> loc.order]
    /\ UNCHANGED <<cfg, rstate, rJ, specFile, tsFile, chunk>>

\* the loop over the reactors left after its first reactor
SpecAddFirstOnly ==
    /\ pc = "spec_add"
    /\ \E r \in RandDraws, n \in {Abs(d) : d \in RandnDraws}, z \in RandnDraws :
          LET res == ReactorAdd(NFreqBins, cfg.Reactors[loc.ri], rstate[loc.ri],
                                rJ[loc.ri], loc.J, r, n, z)
          IN  /\ rstate' = [rstate EXCEPT ![loc.ri] = res.state]
              /\ rJ' = [rJ EXCEPT ![loc.ri] = res.J]
              /\ IF res.err # "none"
                 THEN /\ pc' = "spec_raised"
                      /\ loc' = NoLocals
                      /\ last' = [op |-> "make_spectrogram", err |-> res.err,
                                  written |-> loc.written, steps |-> loc.steps + 1,
                                  order |-> Append(loc.order, loc.ri)]
                 ELSE /\ pc' = "spec_write"
                      /\ loc' = [loc EXCEPT !.J = res.x, !.ri = loc.ri + 1,
                                            !.steps = loc.steps + 1,
                                            !.order = Append(loc.order, loc.ri)]
                      /\ last' = last
    /\ UNCHANGED <<cfg, specFile, tsFile, chunk>>

\* lines 55-56: J = reactor.add(J) for the next reactor of the list
SpecAdd ==
    /\ pc = "spec_add"
    /\ \E r \in RandDraws, n \in {Abs(d) : d \in RandnDraws}, z \in RandnDraws :
          LET res == ReactorAdd(NFreqBins, cfg.Reactors[loc.ri], rstate[loc.ri],
                                rJ[loc.ri], loc.J, r, n, z)
          IN  /\ rstate' = [rstate EXCEPT ![loc.ri] = res.state]
              /\ rJ' = [rJ EXCEPT ![loc.ri] = res.J]
              /\ IF res.err # "none"
                 THEN /\ pc' = "spec_raised"
                      /\ loc' = NoLocals
                      /\ last' = [op |-> "make_spectrogram", err |-> res.err,
                                  written |-> loc.written, steps |-> loc.steps + 1,
                                  order |-> Append(loc.order, loc.ri)]
                 ELSE /\ pc' = IF loc.ri = NReactors THEN "spec_write" ELSE "spec_add"
                      /\ loc' = [loc EXCEPT !.J = res.x, !.ri = loc.ri + 1,
                                            !.steps = loc.steps + 1,
                                            !.order = Append(loc.order, loc.ri)]
                      /\ last' = last
    /\ UNCHANGED <<cfg, specFile, tsFile, chunk>>

\* lines 57-62: the row is written, t += W
SpecWrite ==
    /\ pc = "spec_write"
    /\ specFile' = ToCsv(specFile, loc.first_write, <<FrameRow(loc.J)>>)
    /\ loc' = [method |-> "make_spectrogram",
               t |-> FAdd(loc.t, FParse(cfg.spectrogram.WindowSize_s, 10)),
               first_write |-> FALSE,
               written |-> Append(loc.written, FrameRow(loc.J)),
               steps |-> loc.steps, order |-> loc.order]
    /\ pc' = "spec_loop"
    /\ UNCHANGED <<cfg, rstate, rJ, tsFile, chunk, last>>

\* lines 85-88: the spectrogram artifact is opened for reading
TsBegin ==
    /\ pc \in {"idle", "spec_done"}
    /\ IF ~specFile.exists
       THEN /\ pc' = "ts_raised"
            /\ loc' = NoLocals
            /\ last' = [op |-> "make_time_signal", err |-> "FileNotFoundError",
                        chunks |-> << >>, lines |-> 0]
       ELSE /\ pc' = "ts_loop"
            /\ loc' = [method |-> "make_time_signal", k |-> 1,
                       first_write |-> TRUE, chunks |-> << >>]
            /\ last' = last
    /\ UNCHANGED <<cfg, rstate, rJ, specFile, tsFile, chunk>>

\* the draws of one ifft() call: none are made when the phase is disabled
PhaseDraws(n) ==
    IF cfg.ifft.Phase.Enabled
    THEN {<<poff, ri>> : poff \in (IF cfg.ifft.Phase.ApplyRandomPhaseOffset
                                   THEN RandDraws ELSE {0}),
                         ri \in [1..n -> RandDraws]}
    ELSE {<<0, [k \in 1..n |-> 0]>>}

\* lines 89-98: the next line is read, transformed and written
TsLine ==
    /\ pc = "ts_loop"
    /\ loc.k <= Len(specFile.rows)
    /\ LET ch == ChunkInit(cfg)
       IN  IF ~ch.exists
           THEN /\ pc' = "ts_raised"
                /\ loc' = NoLocals
                /\ chunk' = NoChunk
                /\ tsFile' = tsFile
                /\ last' = [op |-> "make_time_signal", err |-> ch.err,
                            chunks |-> loc.chunks, lines |-> loc.k]
           ELSE \E ph \in PhaseDraws(Len(specFile.rows[loc.k])) :
                  LET res == ChunkAdd(cfg, ch, specFile.rows[loc.k], ph[1], ph[2])
                  IN  IF res.err # "none"
                      THEN /\ pc' = "ts_raised"
                           /\ loc' = NoLocals
                           /\ chunk' = [ch EXCEPT !.X = res.X]
                           /\ tsFile' = tsFile
                           /\ last' = [op |-> "make_time_signal", err |-> res.err,
                                       chunks |-> loc.chunks, lines |-> loc.k]
                      ELSE /\ pc' = "ts_loop"
                           /\ chunk' = [ch EXCEPT !.X = res.X]
                           /\ tsFile' = ToCsv(tsFile, loc.first_write, res.X)
                           /\ loc' = [loc EXCEPT !.k = loc.k + 1,
                                                 !.first_write = FALSE,
                                                 !.chunks = Append(loc.chunks,
                                                     [line |-> loc.k, X |-> res.X])]
                           /\ last' = last
    /\ UNCHANGED <<cfg, rstate, rJ, specFile>>

\* the end of the file is reached
TsEnd ==
    /\ pc = "ts_loop"
    /\ loc.k > Len(specFile.rows)
    /\ pc' = "ts_done"
    /\ loc' = NoLocals
    /\ last' = [op |-> "make_time_signal", err |-> "none",
                chunks |-> loc.chunks, lines |-> loc.k - 1]
    /\ UNCHANGED <<cfg, rstate, rJ, specFile, tsFile, chunk>>

\* a row of an earlier run's spectrogram, and a row of an earlier time signal
StaleRow(nbins) == [k \in 1..nbins |-> AmpToDb(DbToAmp(0))]

StaleSample == [stale |-> TRUE]

PriorSpecFiles(nbins) ==
    {NoFile, File(<< >>), File(<<StaleRow(nbins)>>),
     File(<<StaleRow(nbins), StaleRow(nbins)>>)}

PriorTsFiles == {NoFile, File(<<StaleSample, StaleSample>>)}

DefaultIfft(nbins, W) ==
    [DurationPerChunk_s |-> -10, StartingSampleRate_Hz |-> (10 * nbins) \div W,
     UpsampleRate |-> 1,
     Phase |-> [Enabled |-> FALSE, ApplyRandomPhaseOffset |-> FALSE,
                PhaseNoise_rads |-> 0],
     Expansion |-> [ExpansionMethod |-> "repeat",
                    UpsampleInterpolationMethod |-> "makima"]]

\* the reactors of the runs: one kind of each distribution, and the unknown ones
RunReactorProps(nbins) ==
    [centerbin : Bins(nbins), ge_probs : GeProbLists,
     bw_distr : {[type |-> "normal", mean |-> 1, std |-> 0],
                 [type |-> "flat", mean |-> 1, std |-> 0],
                 [type |-> "uniform", mean |-> 1, std |-> 0]},
     pwr_distr : {[type |-> "normal", mean |-> 0, std |-> 0],
                  [type |-> "lognormal", mean |-> 0, std |-> 0]},
     pwr_shaping : {[enabled |-> FALSE]}]

\* runs without reactors over many windows of a tenth of a second
InitWindows(c) ==
    \E nbins \in 1..MaxBins, dur \in {3, 8} :
       c = [spectrogram |-> [NFreqBins |-> nbins, WindowSize_s |-> 1,
                             Duration_s |-> dur, NoiseFloorPower_dB |-> -20],
            ifft |-> DefaultIfft(nbins, 1), Reactors |-> << >>]

\* runs of one reactor over at most three windows
InitReactorRuns(c) ==
    \E nbins \in 1..MaxBins, dur \in {0, 5, 12} :
       \E rs \in {<<p>> : p \in RunReactorProps(nbins)} :
          c = [spectrogram |-> [NFreqBins |-> nbins, WindowSize_s |-> 5,
                                Duration_s |-> dur, NoiseFloorPower_dB |-> -20],
               ifft |-> DefaultIfft(nbins, 5), Reactors |-> rs]

\* the ifft sections of the runs of the time-signal stage: every expansion
\* method and an unknown one, and a rate of zero, N/(2 tau), N/tau and 2N/tau
\* for the window of half a second
RunIffts(nbins) ==
    [DurationPerChunk_s : {-10},
     StartingSampleRate_Hz : {0, nbins, 2 * nbins, 4 * nbins},
     UpsampleRate : {1},
     Phase : {[Enabled |-> FALSE, ApplyRandomPhaseOffset |-> FALSE,
               PhaseNoise_rads |-> 0]},
     Expansion : [ExpansionMethod : {"repeat", "interpolation", "upsample", "sinc"},
                  UpsampleInterpolationMethod : {"makima"}]]

\* runs without reactors over one window, for every ifft section
InitTimeSignals(c) ==
    \E nbins \in 1..MaxBins : \E i \in RunIffts(nbins) :
       c = [spectrogram |-> [NFreqBins |-> nbins, WindowSize_s |-> 5,
                             Duration_s |-> 5, NoiseFloorPower_dB |-> 0],
            ifft |-> i, Reactors |-> << >>]

\* the first and the second reactor of the runs of two reactors: both toggle
\* on every draw above zero
FirstReactorProps(nbins) ==
    [centerbin : Bins(nbins), ge_probs : {<<0, ProbDen, ProbDen, 0>>},
     bw_distr : {[type |-> "normal", mean |-> 1, std |-> 0],
                 [type |-> "normal", mean |-> 3, std |-> 0],
                 [type |-> "flat", mean |-> 1, std |-> 0]},
     pwr_distr : {[type |-> "normal", mean |-> 0, std |-> 0]},
     pwr_shaping : {[enabled |-> FALSE]}]

SecondReactorProps(nbins) ==
    [centerbin : {0, nbins - 1}, ge_probs : {<<0, ProbDen, ProbDen, 0>>},
     bw_distr : {[type |-> "normal", mean |-> 1, std |-> 0]},
     pwr_distr : {[type |-> "normal", mean |-> 20, std |-> 0]},
     pwr_shaping : {[enabled |-> FALSE]}]

\* runs of two reactors over one or three windows
InitTwoReactorRuns(c) ==
    \E nbins \in 1..MaxBins, dur \in {5, 12} :
       \E p1 \in FirstReactorProps(nbins), p2 \in SecondReactorProps(nbins) :
          c = [spectrogram |-> [NFreqBins |-> nbins, WindowSize_s |-> 5,
                                Duration_s |-> dur, NoiseFloorPower_dB |-> -20],
               ifft |-> DefaultIfft(nbins, 5), Reactors |-> <<p1, p2>>]

InitRun ==
    /\ \/ InitWindows(cfg)
       \/ InitReactorRuns(cfg)
       \/ InitTimeSignals(cfg)
       \/ InitTwoReactorRuns(cfg)
    /\ InitReactorObjects
    /\ pc = "idle"
    /\ loc = NoLocals
    /\ specFile \in PriorSpecFiles(NFreqBins)
    /\ tsFile \in PriorTsFiles
    /\ chunk = NoChunk
    /\ last = NoCall

(***************************************************************************)
(* The time chunk on its own: one call of IFFTTimeChunk(rfi_props), or of  *)
(* rep() on a chunk whose N, M and X a caller has set.                     *)
(***************************************************************************)
ChunkIffts(nbins) ==
    [DurationPerChunk_s : {-10, 5, 20},
     StartingSampleRate_Hz : {0, nbins, 2 * nbins, 4 * nbins},
     UpsampleRate : {1, 2},
     Phase : {[Enabled |-> FALSE, ApplyRandomPhaseOffset |-> FALSE,
               PhaseNoise_rads |-> 0]},
     Expansion : [ExpansionMethod : {"repeat", "interpolation", "upsample", "sinc"},
                  UpsampleInterpolationMethod : {"makima"}]]

InitChunk ==
    /\ \E nbins \in 1..MaxBins : \E i \in ChunkIffts(nbins) :
          cfg = [spectrogram |-> [NFreqBins |-> nbins, WindowSize_s |-> 10,
                                  Duration_s |-> 0, NoiseFloorPower_dB |-> 0],
                 ifft |-> i, Reactors |-> << >>]
    /\ InitReactorObjects
    /\ pc = "idle"
    /\ loc = NoLocals
    /\ specFile = NoFile
    /\ tsFile = NoFile
    /\ chunk = NoChunk
    /\ last = NoCall

\* IFFTTimeChunk(self.rfi_props)
ChunkConstruct ==
    /\ pc = "idle"
    /\ last = NoCall
    /\ LET ch == ChunkInit(cfg)
       IN  /\ chunk' = IF ch.exists THEN ch ELSE NoChunk
           /\ last' = [op |-> "IFFTTimeChunk", err |-> ch.err]
    /\ UNCHANGED <<cfg, rstate, rJ, pc, loc, specFile, tsFile>>

\* the chunk lengths rep() is called with
RepLens == (1..MaxBins) \cup {10}

\* rep() on a chunk with N = n, M = m/10 and X = [1, ..., n]
RepCall ==
    /\ pc = "idle"
    /\ last = NoCall
    /\ \E n \in RepLens, m \in 0..MaxRepTenths :
          LET X0 == [k \in 1..n |-> k]
              res == Rep(X0, n, FParse(m, 10), cfg.ifft.Expansion.ExpansionMethod)
          IN  /\ chunk' = [exists |-> TRUE, err |-> "none", N |-> n,
                           M |-> FParse(m, 10), U |-> cfg.ifft.UpsampleRate,
                           X |-> res.X]
              /\ last' = [op |-> "rep", N |-> n, Mtenths |-> m, X0 |-> X0,
                          res |-> res]
    /\ UNCHANGED <<cfg, rstate, rJ, pc, loc, specFile, tsFile>>

\* ifft(YdB) on a chunk with N = n and M = m/10, for the row YdB of the
\* n values 20*log10(1), ..., 20*log10(n); under "upsample" the magnitude
\* vector has round(M*N) values, none of which makes Y0[Im-1] an IndexError
IfftCall ==
    /\ pc = "idle"
    /\ last = NoCall
    /\ ~cfg.ifft.Phase.Enabled
    /\ \E n \in 1..MaxBins, m \in 0..MaxRepTenths :
          LET YdB == [k \in 1..n |-> AmpToDb(k)]
              M == FParse(m, 10)
              K == PyRound(FMulNat(M, n))
          IN  IF cfg.ifft.Expansion.ExpansionMethod = "upsample" /\ K = 0
              THEN /\ chunk' = chunk
                   /\ last' = [op |-> "ifft", N |-> n, Mtenths |-> m, YdB |-> YdB,
                               err |-> "IndexError", X |-> << >>]
              ELSE LET X == Ifft(cfg, n, M, YdB, 0, [k \in 1..n |-> 0])
                   IN  /\ chunk' = [exists |-> TRUE, err |-> "none", N |-> n,
                                    M |-> M, U |-> cfg.ifft.UpsampleRate, X |-> X]
                       /\ last' = [op |-> "ifft", N |-> n, Mtenths |-> m,
                                   YdB |-> YdB, err |-> "none", X |-> X]
    /\ UNCHANGED <<cfg, rstate, rJ, pc, loc, specFile, tsFile>>

NextChunk == ChunkConstruct \/ RepCall \/ IfftCall

SpecChunk == InitChunk /\ [][NextChunk]_vars

Init == InitRun

Next == SpecBegin \/ SpecLoopTest \/ SpecAdd \/ SpecWrite \/ TsBegin \/ TsLine \/ TsEnd

Spec == Init /\ [][Next]_vars

(***************************************************************************)
(* The properties.                                                         *)
(***************************************************************************)
CeilDiv(a, b) == (a + b - 1) \div b

\* the concatenation of the sample lists of a list of chunks
RECURSIVE ConcatChunks(_)
ConcatChunks(chunks) ==
    IF chunks = << >> THEN << >>
    ELSE Head(chunks).X \o ConcatChunks(Tail(chunks))

SpecCompleted == last.op = "make_spectrogram" /\ last.err = "none"

TsCompleted == last.op = "make_time_signal" /\ last.err = "none"

\* C1: a completed make_spectrogram (odd bin count) has written exactly
\* ceil(Duration_s / WindowSize_s) rows, each of NFreqBins values.
C1_RowCountIsCeilDurationOverWindow ==
    SpecCompleted
    => /\ Len(last.written)
            = CeilDiv(cfg.spectrogram.Duration_s, cfg.spectrogram.WindowSize_s)
       /\ \A k \in 1..Len(last.written) : Len(last.written[k]) = NFreqBins

\* C2: after make_time_signal completes there is one chunk per spectrogram
\* row, the k-th chunk is the transform of the k-th row alone, and the
\* time-signal artifact is the concatenation of the chunks in that order.
C2_OneChunkPerRowInOrder ==
    (TsCompleted /\ ~cfg.ifft.Phase.Enabled)
    => /\ Len(last.chunks) = Len(specFile.rows)
       /\ \A k \in 1..Len(last.chunks) :
             /\ last.chunks[k].line = k
             /\ last.chunks[k].X
                  = ChunkAdd(cfg, ChunkInit(cfg), specFile.rows[k], 0,
                             [j \in 1..Len(specFile.rows[k]) |-> 0]).X
       /\ tsFile.rows = ConcatChunks(last.chunks)

\* C3: after make_spectrogram (make_time_signal) returns normally, the
\* artifact holds exactly the rows that call produced, whatever it held
\* before and whatever the duration or the number of input rows.
C3_ArtifactHoldsOnlyThisRunsRows ==
    /\ (SpecCompleted /\ pc = "spec_done") => specFile.rows = last.written
    /\ TsCompleted => tsFile.rows = ConcatChunks(last.chunks)

\* C4: with an even NFreqBins make_spectrogram raises at once: it never
\* enters its loop, steps no reactor, and leaves the artifact as it was.
C4_EvenBinCountRaisesBeforeAnyFrame ==
    /\ [](NFreqBins % 2 = 0
            => pc \notin {"spec_loop", "spec_add", "spec_write", "spec_done"})
    /\ [][(NFreqBins % 2 = 0 /\ pc = "idle" /\ pc' \notin {"idle", "ts_loop", "ts_raised"})
            => /\ pc' = "spec_raised"
               /\ last'.op = "make_spectrogram"
               /\ last'.err = "ValueError"
               /\ last'.steps = 0
               /\ last'.written = << >>
               /\ specFile' = specFile
               /\ rstate' = rstate
               /\ rJ' = rJ]_vars

\* make_spectrogram has raised on an even bin count, one reactor is
\* configured, and the artifact of an earlier run is still there
C4_Witness ==
    /\ NFreqBins % 2 = 0
    /\ pc = "spec_raised"
    /\ last.err = "ValueError"
    /\ NReactors = 1
    /\ specFile.exists
    /\ Len(specFile.rows) = 1

\* C7: a constructed chunk has fs = StartingSampleRate_Hz when that is not
\* zero and fs = N/tau when it is zero, M = tau*fs/N, and the construction
\* succeeds with a zero rate.
C7_SampleRateAsConfiguredOrDerived ==
    last.op = "IFFTTimeChunk"
    => LET tau == IF cfg.ifft.DurationPerChunk_s < 0
                  THEN cfg.spectrogram.WindowSize_s
                  ELSE cfg.ifft.DurationPerChunk_s
           fs0 == cfg.ifft.StartingSampleRate_Hz
           fs == IF fs0 # 0 THEN Frac(fs0, 1) ELSE Frac(10 * NFreqBins, tau)
           M == Frac(tau * fs[1], 10 * NFreqBins * fs[2])
       IN  /\ last.err = "none"
           /\ chunk.exists
           /\ chunk.fs = fs
           /\ chunk.M = FParse(M[1], M[2])

\* C8: under "repeat", for M >= 1, rep() yields X tiled floor(M) times
\* followed by the first round((M - floor(M)) * N) samples of X, of length
\* floor(M)*N + round((M - floor(M))*N); N = 10, M = 2.2 gives
\* [1..10, 1..10, 1, 2].
C8_RepeatTilesThenAppendsPrefix ==
    (/\ last.op = "rep"
     /\ cfg.ifft.Expansion.ExpansionMethod = "repeat"
     /\ last.Mtenths >= 10)
    => LET m == last.Mtenths \div 10
           fp == FSubNat(FParse(last.Mtenths, 10), m)
           cnt == PyRound(FMulNat(fp, last.N))
       IN  /\ last.res.err = "none"
           /\ cnt <= last.N
           /\ Len(last.res.X) = m * last.N + cnt
           /\ last.res.X = Tile(last.X0, m) \o SubSeq(last.X0, 1, cnt)
           /\ chunk.X = last.res.X
           /\ (last.N = 10 /\ last.Mtenths = 22)
                => last.res.X = [k \in 1..22 |-> ((k - 1) % 10) + 1]

\* rep() has expanded a chunk of N = 10 samples by M = 2.2
C8_Witness ==
    /\ last.op = "rep"
    /\ cfg.ifft.Expansion.ExpansionMethod = "repeat"
    /\ last.N = 10
    /\ last.Mtenths = 22
    /\ Len(chunk.X) = 22
    /\ chunk.X[21] = 1
    /\ chunk.X[22] = 2

\* some configured reactor has a bandwidth or power kind that is not supported
UnknownKindConfigured ==
    \E i \in 1..NReactors :
       \/ cfg.Reactors[i].bw_distr.type \notin {"normal", "flat"}
       \/ cfg.Reactors[i].pwr_distr.type # "normal"

\* C10: with a reactor of an unsupported bandwidth or power kind,
\* make_spectrogram raises before any row is written.
C10_UnknownKindAbortsBeforeAnyRow ==
    (UnknownKindConfigured /\ NFreqBins % 2 = 1)
    => /\ pc \notin {"spec_write", "spec_done"}
       /\ loc.method = "make_spectrogram" => loc.written = << >>
       /\ last.op = "make_spectrogram"
            => (last.err = "ValueError" /\ last.written = << >>)

\* the span the specification gives an ON reactor of width L:
\* [center-(L-1)/2, center+(L-1)/2] clipped to [0, nbins-1]
ClippedSpan(nbins, center, L) ==
    {b \in Bins(nbins) : center - (L - 1) \div 2 <= b /\ b <= center + (L - 1) \div 2}

\* the bins at which a vector over the bins is not zero
NonZeroBins(v) == {b \in DOMAIN v : v[b] # 0}

\* the last call was reactor 1's add(), and it left the reactor ON
AddLeftOn == last.op = "add" /\ last.res.state = 1

\* C5: an ON reactor with "normal" bandwidth (and a supported power kind)
\* occupies exactly [center-(L-1)/2, center+(L-1)/2] clipped to [0, nbins-1],
\* and add() never indexes outside the contribution vector.
C5_OccupiedSpanIsClippedInterval ==
    (/\ AddLeftOn
     /\ cfg.Reactors[last.i].bw_distr.type = "normal"
     /\ cfg.Reactors[last.i].pwr_distr.type = "normal")
    => /\ last.res.err # "IndexError"
       /\ NonZeroBins(last.res.folded)
            = ClippedSpan(NFreqBins, cfg.Reactors[last.i].centerbin,
                          BwWidth(cfg.Reactors[last.i].bw_distr, last.n))

\* C6: with bandwidth {normal, 1, 0}, power {normal, 0, 0} and shaping off, a
\* reactor that is ON after stepping contributes 1.0 at its center bin and 0
\* at every other bin, whatever the center bin in 0..nbins-1.
C6_UnitWidthOccupiesCenterBin ==
    (/\ AddLeftOn
     /\ cfg.Reactors[last.i].bw_distr = [type |-> "normal", mean |-> 1, std |-> 0]
     /\ cfg.Reactors[last.i].pwr_distr = [type |-> "normal", mean |-> 0, std |-> 0]
     /\ ~cfg.Reactors[last.i].pwr_shaping.enabled)
    => /\ last.res.err = "none"
       /\ last.res.folded
            = [b \in Bins(NFreqBins) |->
                  IF b = cfg.Reactors[last.i].centerbin THEN DbToAmp(0) ELSE 0]

\* C9: after every add() call the reactor's own contribution vector is all
\* zeros, and the vector the call folded into its argument is non-zero only
\* at bins of the reactor's occupied span (nowhere when the reactor is OFF).
C9_ContributionClearedAndInsideSpan ==
    last.op = "add"
    => /\ rJ[last.i] = Zeros(NFreqBins)
       /\ NonZeroBins(last.res.folded) \subseteq last.res.I
       /\ last.res.state = 0 => last.res.folded = Zeros(NFreqBins)
       /\ (last.res.state = 1 /\ cfg.Reactors[last.i].bw_distr.type = "normal")
            => NonZeroBins(last.res.folded)
                 \subseteq ClippedSpan(NFreqBins, cfg.Reactors[last.i].centerbin,
                                       BwWidth(cfg.Reactors[last.i].bw_distr, last.n))

\* an add() on a reactor that was already ON, which stays ON and folds a
\* contribution that leaves some bin untouched
C9_Witness ==
    /\ last.op = "add"
    /\ last.from = 1
    /\ last.res.state = 1
    /\ last.res.err = "none"
    /\ NonZeroBins(last.res.folded) # {}
    /\ NonZeroBins(last.res.folded) # Bins(NFreqBins)
    /\ rJ[last.i] = Zeros(NFreqBins)

\* the list ge_probs of the reactor of the state machine on its own
GeList == cfg.Reactors[1].ge_probs

\* C12: with p00 = p11 = 1 the state machine, which starts OFF, is OFF after
\* any number of step() calls, whatever the draws in [0, 1).
C12_AllOnesNeverLeavesOff ==
    (/\ last.op \in {"GEReactor", "step"}
     /\ GeList[1] = ProbDen
     /\ GeList[4] = ProbDen)
    => /\ rstate[1] = 0
       /\ last.from = 0

\* the state machine with p00 = p11 = 1 has been stepped MaxSteps times, the
\* last time with the largest draw
C12_Witness ==
    /\ last.op = "step"
    /\ GeList[1] = ProbDen
    /\ GeList[4] = ProbDen
    /\ Len(last.draws) = MaxSteps
    /\ last.draws[MaxSteps] = ProbDen - 1
    /\ rstate[1] = 0

\* C13: with p00 = p11 = 0 every step() whose draw is greater than 0 flips
\* the state, so that from OFF the state alternates on every such step.
C13_AllZerosTogglesEveryStep ==
    (/\ last.op = "step"
     /\ GeList[1] = 0
     /\ GeList[4] = 0)
    => /\ last.draws[Len(last.draws)] > 0 => rstate[1] = 1 - last.from
       /\ (\A k \in 1..Len(last.draws) : last.draws[k] > 0)
            => rstate[1] = Len(last.draws) % 2

\* the state machine with p00 = p11 = 0 has been stepped MaxSteps times with
\* draws greater than 0 and has just gone from ON to OFF
C13_Witness ==
    /\ last.op = "step"
    /\ GeList[1] = 0
    /\ GeList[4] = 0
    /\ Len(last.draws) = MaxSteps
    /\ \A k \in 1..MaxSteps : last.draws[k] > 0
    /\ last.from = 1
    /\ rstate[1] = 0

\* C18: the reactor built from ge_probs = [a, b, c, d] holds the matrix of
\* rows [a, b] and [c, d], and step() stays OFF with probability a and ON
\* with probability d.
C18_MatrixRowsAreListPairs ==
    last.op \in {"GEReactor", "step"}
    => /\ last.probs = <<<<GeList[1], GeList[2]>>, <<GeList[3], GeList[4]>>>>
       /\ (last.op = "step" /\ last.from = 0)
            => (rstate[1] = 0 <=> last.draws[Len(last.draws)] <= GeList[1])
       /\ (last.op = "step" /\ last.from = 1)
            => (rstate[1] = 1 <=> last.draws[Len(last.draws)] <= GeList[4])

\* C14: with "flat" bandwidth and shaping disabled, a reactor that is ON
\* after stepping contributes the same amplitude to every bin 0..nbins-1,
\* whatever its center bin.
C14_FlatFillsEveryBinAlike ==
    (/\ AddLeftOn
     /\ cfg.Reactors[last.i].bw_distr.type = "flat"
     /\ cfg.Reactors[last.i].pwr_distr.type = "normal"
     /\ ~cfg.Reactors[last.i].pwr_shaping.enabled)
    => /\ last.res.err = "none"
       /\ DOMAIN last.res.folded = Bins(NFreqBins)
       /\ \A b \in Bins(NFreqBins) :
             /\ last.res.folded[b] > 0
             /\ last.res.folded[b]
                  = DbToAmp(cfg.Reactors[last.i].pwr_distr.mean
                            + cfg.Reactors[last.i].pwr_distr.std * last.z)
             /\ last.res.x[b] = last.x0[b] + last.res.folded[b]

\* a "flat" reactor without shaping, centred on the top bin of MaxBins bins,
\* is ON after add() and has filled every bin
C14_Witness ==
    /\ AddLeftOn
    /\ NFreqBins = MaxBins
    /\ cfg.Reactors[last.i].centerbin = MaxBins - 1
    /\ cfg.Reactors[last.i].bw_distr.type = "flat"
    /\ cfg.Reactors[last.i].pwr_distr.type = "normal"
    /\ ~cfg.Reactors[last.i].pwr_shaping.enabled
    /\ last.res.err = "none"
    /\ NonZeroBins(last.res.folded) = Bins(MaxBins)

\* the magnitude vector that ifft() reorders: 10 ** (YdB / 20), resampled to
\* round(M*N) values under "upsample"
MagnitudesToReorder ==
    LET Y0 == [k \in 1..Len(last.YdB) |-> last.YdB[k].dB20log10]
        K == PyRound(FMulNat(FParse(last.Mtenths, 10), last.N))
    IN  IF cfg.ifft.Expansion.ExpansionMethod = "upsample"
        THEN [j \in 1..K |-> [makima |-> Y0, j |-> j - 1, K |-> K]]
        ELSE Y0

\* the vector handed to np.fft.ifft by the last ifft() call (phase disabled)
ReorderedMagnitudes == last.X[1].ifft

\* C16: the reorder maps a magnitude vector of any length n >= 1, odd or
\* even, to a permutation of it of the same length: position 0 holds input
\* index ceil(n/2)-1, then come ceil(n/2)..n-1, then 0..ceil(n/2)-2.
C16_ReorderIsMidpointRotation ==
    (last.op = "ifft" /\ last.err = "none")
    => LET In == MagnitudesToReorder
           Out == ReorderedMagnitudes
           n == Len(In)
           c == (n + 1) \div 2
       IN  /\ n >= 1
           /\ Len(Out) = n
           /\ Len(last.X) = n
           /\ Out[1] = In[c]
           /\ \A k \in 1..(n - c) : Out[1 + k] = In[c + k]
           /\ \A k \in 1..(c - 1) : Out[1 + (n - c) + k] = In[k]
           /\ LET perm == [i \in 1..n |->
                              IF i = 1 THEN c
                              ELSE IF i <= 1 + (n - c) THEN c + i - 1
                              ELSE i - 1 - (n - c)]
              IN  /\ {perm[i] : i \in 1..n} = 1..n
                  /\ \A i, j \in 1..n : perm[i] = perm[j] => i = j
                  /\ \A i \in 1..n : Out[i] = In[perm[i]]

\* ifft() under "upsample" has reordered a vector of four magnitudes:
\* resampled value 1 stands first, then 2, 3, and value 0 last
C16_Witness ==
    /\ last.op = "ifft"
    /\ last.err = "none"
    /\ cfg.ifft.Expansion.ExpansionMethod = "upsample"
    /\ last.N = 3
    /\ Len(ReorderedMagnitudes) = 4
    /\ ReorderedMagnitudes[1].j = 1
    /\ ReorderedMagnitudes[4].j = 0

\* the repetition factor the configuration asks for, tau * fs / N, as the
\* fraction <<numerator, denominator>>, fs being StartingSampleRate_Hz, or
\* N / tau when that is zero
ConfiguredM ==
    LET tau == IF cfg.ifft.DurationPerChunk_s < 0
               THEN cfg.spectrogram.WindowSize_s ELSE cfg.ifft.DurationPerChunk_s
        fs0 == cfg.ifft.StartingSampleRate_Hz
    IN  IF fs0 = 0 THEN <<1, 1>> ELSE Frac(tau * fs0, 10 * NFreqBins)

\* the expansion method is unknown, or it is "repeat" with floor(M) < 1
BadExpansionConfigured ==
    \/ cfg.ifft.Expansion.ExpansionMethod \notin {"repeat", "interpolation", "upsample"}
    \/ /\ cfg.ifft.Expansion.ExpansionMethod = "repeat"
       /\ ConfiguredM[1] < ConfiguredM[2]

\* C11: with an unknown expansion method, or floor(M) < 1 under "repeat",
\* make_time_signal raises while it processes the first frame, and the
\* time-signal artifact receives no sample of that frame or of a later one.
C11_BadExpansionRaisesOnFirstFrame ==
    (BadExpansionConfigured /\ Len(specFile.rows) >= 1)
    => /\ pc # "ts_done"
       /\ loc.method = "make_time_signal" => loc.chunks = << >>
       /\ last.op = "make_time_signal"
            => /\ last.err # "none"
               /\ last.lines = 1
               /\ last.chunks = << >>
       /\ \A k \in 1..Len(tsFile.rows) : tsFile.rows[k] = StaleSample

\* the list 1, ..., NReactors repeated k times
RECURSIVE ListOrderTimes(_)
ListOrderTimes(k) ==
    IF k = 0 THEN << >> ELSE [i \in 1..NReactors |-> i] \o ListOrderTimes(k - 1)

\* C15: during make_spectrogram every reactor is stepped once per window,
\* in list order and before the row of the window is written, and keeps its
\* state from one window to the next: when the row of window k is about to
\* be written every reactor has been stepped k times, and a run that
\* returns after K rows has stepped every reactor K times.
C15_EveryReactorSteppedOncePerWindow ==
    /\ [](/\ pc = "spec_write"
              => loc.order = ListOrderTimes(Len(loc.written) + 1)
          /\ pc = "spec_loop"
              => loc.order = ListOrderTimes(Len(loc.written))
          /\ pc = "spec_add"
              => loc.order = ListOrderTimes(Len(loc.written))
                               \o [i \in 1..(loc.ri - 1) |-> i]
          /\ SpecCompleted
              => /\ last.order = ListOrderTimes(Len(last.written))
                 /\ last.steps = NReactors * Len(last.written))
    /\ [][/\ pc = "idle" /\ pc' = "spec_loop"
              => \A i \in 1..NReactors : rstate[i] = 0
          /\ pc = "spec_add"
              => \A i \in 1..NReactors : i # loc.ri => rstate'[i] = rstate[i]
          /\ pc \in {"spec_loop", "spec_write"} => rstate' = rstate]_vars

\* a run of two reactors has returned after three rows, each reactor
\* stepped three times, the first ON at the end and the second OFF
C15_Witness ==
    /\ SpecCompleted
    /\ NReactors = 2
    /\ Len(last.written) = 3
    /\ last.order = <<1, 2, 1, 2, 1, 2>>
    /\ rstate = <<1, 0>>

\* the bins the specification gives reactor i when it is ON (the bandwidth
\* std of every reactor of the runs is zero, so the width needs no draw)
SpanOfReactor(i) ==
    IF cfg.Reactors[i].bw_distr.type = "normal"
    THEN ClippedSpan(NFreqBins, cfg.Reactors[i].centerbin,
                     BwWidth(cfg.Reactors[i].bw_distr, 0))
    ELSE Bins(NFreqBins)

\* C19: every value of every written frame is at least the noise floor, and
\* a bin of a frame is at the noise floor exactly when no ON reactor
\* occupies it in that window.
C19_FrameAtLeastNoiseFloor ==
    LET nfv == DbToAmp(cfg.spectrogram.NoiseFloorPower_dB)
    IN  /\ loc.method = "make_spectrogram"
             => \A k \in 1..Len(loc.written) : \A b \in 1..NFreqBins :
                   /\ specFile.rows[k] = loc.written[k]
                   /\ loc.written[k][b].dB20log10 >= nfv
        /\ pc = "spec_write"
             => \A b \in Bins(NFreqBins) :
                   /\ loc.J[b] >= nfv
                   /\ loc.J[b] = nfv
                        <=> ~\E i \in 1..NReactors :
                                rstate[i] = 1 /\ b \in SpanOfReactor(i)

\* the outcome of the last pass over the pair had it gone in the other order,
\* from the same states and with the same draws for each reactor
OtherOrder ==
    AddInOrder(NFreqBins, cfg.Reactors, <<last.order[2], last.order[1]>>,
               last.pre.state, last.pre.J, last.x0, last.d)

\* C17: add() calls of distinct reactors commute: with the same draws the
\* two orders return the same vector and leave both reactors in the same
\* states, and an add() on one reactor leaves the other reactor's state and
\* contribution vector unchanged.
C17_AddsOfDistinctReactorsCommute ==
    last.op = "add_pair"
    => /\ last.res.err = "none"
       /\ OtherOrder.err = "none"
       /\ last.res.x = OtherOrder.x
       /\ last.res.state = OtherOrder.state
       /\ last.res.J = OtherOrder.J
       /\ last.res.mid.state[last.order[2]] = last.pre.state[last.order[2]]
       /\ last.res.mid.J[last.order[2]] = last.pre.J[last.order[2]]
====
